---- MODULE Spec2Model ----
(***************************************************************************)
(* sveltekit-lighthouse-runner: the command line run (runLighthouse, both  *)
(* revisions of index.ts), the batch scheduler of executor.ts              *)
(* (processBatchAudits) and the route helpers of routeUtils.ts.            *)
(*                                                                         *)
(* Strings are sequences of one-character strings, so that split, join,    *)
(* trim and the artifact-name sanitizer are computed as the code computes  *)
(* them.  One action is one synchronous segment of the program: the code   *)
(* between two suspension points (await, rl.question, an audit settling).  *)
(***************************************************************************)
EXTENDS Integers, Sequences, FiniteSets, TLC

\* ---------------------------------------------------------------- bounds
\* longest list of discovered routes
MaxRoutes == 3
\* most '/'-delimited segments of a route handed to a utility function
MaxSegments == 3
\* deepest nesting of directories below the routes directory
MaxDepth == 2
\* longest route handed to the artifact naming and to joinUrl
MaxRouteLen == 3
\* calls of getReportDir within one process
MaxCalls == 3
\* milliseconds the clock can advance while they are made
MaxTime == 3
\* longest pattern of --ignore among those enumerated exhaustively
MaxPatternLen == 3
\* largest os.cpus().length
MaxCpus == 3

\* ------------------------------------------------------- string helpers
Max(a, b) == IF a >= b THEN a ELSE b

\* String.prototype.split with a one-character separator
RECURSIVE Split(_, _)
Split(s, sep) ==
    IF \A i \in 1..Len(s) : s[i] # sep
    THEN <<s>>
    ELSE LET k == CHOOSE i \in 1..Len(s) :
                      s[i] = sep /\ \A j \in 1..(i - 1) : s[j] # sep
         IN  <<SubSeq(s, 1, k - 1)>> \o Split(SubSeq(s, k + 1, Len(s)), sep)

\* Array.prototype.join
RECURSIVE Join(_, _)
Join(parts, sep) ==
    IF Len(parts) = 0 THEN <<>>
    ELSE IF Len(parts) = 1 THEN parts[1]
    ELSE parts[1] \o <<sep>> \o Join(Tail(parts), sep)

\* String.prototype.trim
RECURSIVE TrimLeft(_)
TrimLeft(s) ==
    IF Len(s) > 0 /\ s[1] = " " THEN TrimLeft(Tail(s)) ELSE s

RECURSIVE TrimRight(_)
TrimRight(s) ==
    IF Len(s) > 0 /\ s[Len(s)] = " " THEN TrimRight(SubSeq(s, 1, Len(s) - 1)) ELSE s

Trim(s) == TrimRight(TrimLeft(s))

\* part.startsWith(":")
StartsWithColon(part) == Len(part) > 0 /\ part[1] = ":"

\* route.includes(":")
IncludesColon(route) == \E i \in 1..Len(route) : route[i] = ":"

\* a route has a '/'-delimited segment that begins with ':'
HasParamSegment(route) ==
    LET parts == Split(route, "/")
    IN  \E i \in 1..Len(parts) : StartsWithColon(parts[i])

\* the elements of a sequence
Range(s) == {s[i] : i \in 1..Len(s)}

\* JavaScript truthiness of obj[key] for a string-valued dictionary
Truthy(obj, key) == key \in DOMAIN obj /\ obj[key] # <<>>

\* obj[key] = value
Put(obj, key, value) ==
    [k \in (DOMAIN obj) \cup {key} |-> IF k = key THEN value ELSE obj[k]]

\* { ...a, ...b }
Spread(a, b) ==
    [k \in (DOMAIN a) \cup (DOMAIN b) |-> IF k \in DOMAIN b THEN b[k] ELSE a[k]]

EmptyObject == [k \in {} |-> <<>>]

\* ------------------------------------------------------- routeUtils.ts
\* the scan of one route collecting into an array instead of a Set
extractUniqueParamsOfRoute_Array(route, seen) ==
    LET parts == Split(route, "/")
        F[i \in 0..Len(parts)] ==
            IF i = 0 THEN seen
            ELSE IF StartsWithColon(parts[i])
                 THEN Append(F[i - 1], Tail(parts[i]))
                 ELSE F[i - 1]
    IN  F[Len(parts)]

\* for (const part of route.split("/")) if (part.startsWith(":"))
\* uniqueParams.add(part.substring(1)): a Set keeps insertion order
extractUniqueParamsOfRoute(route, seen) ==
    LET parts == Split(route, "/")
        F[i \in 0..Len(parts)] ==
            IF i = 0 THEN seen
            ELSE IF StartsWithColon(parts[i]) /\ Tail(parts[i]) \notin Range(F[i - 1])
                 THEN Append(F[i - 1], Tail(parts[i]))
                 ELSE F[i - 1]
    IN  F[Len(parts)]

extractUniqueParams(rs) ==
    LET F[i \in 0..Len(rs)] ==
            IF i = 0 THEN <<>> ELSE extractUniqueParamsOfRoute(rs[i], F[i - 1])
    IN  F[Len(rs)]

\* joinUrl with the base URL taken as it is
joinUrl_KeepTrailingSlash(baseUrl, path) ==
    LET cleanPath == IF Len(path) > 0 /\ path[1] = "/" THEN path ELSE <<"/">> \o path
    IN  baseUrl \o cleanPath

\* joinUrl: slice(0, -1) of a base URL that ends with "/", "/" before a
\* path that does not start with one
joinUrl(baseUrl, path) ==
    LET cleanBaseUrl == IF Len(baseUrl) > 0 /\ baseUrl[Len(baseUrl)] = "/"
                        THEN SubSeq(baseUrl, 1, Len(baseUrl) - 1) ELSE baseUrl
        cleanPath == IF Len(path) > 0 /\ path[1] = "/" THEN path ELSE <<"/">> \o path
    IN  cleanBaseUrl \o cleanPath

applyParamValues(route, pv) ==
    LET parts == Split(route, "/")
        processedParts ==
            [i \in 1..Len(parts) |->
                IF StartsWithColon(parts[i])
                THEN (IF Truthy(pv, Tail(parts[i])) THEN pv[Tail(parts[i])] ELSE parts[i])
                ELSE parts[i]]
    IN  Join(processedParts, "/")

\* ------------------------------------------------- fileUtils.ts, path
Dot == <<".">>
DotDot == <<".", ".">>

\* normalizeString of node's path module, POSIX: empty and '.' segments are
\* dropped, '..' removes the segment before it, or stays when the path is
\* relative and nothing is left to remove
normalizeString(p, allowAboveRoot) ==
    LET parts == Split(p, "/")
        F[i \in 0..Len(parts)] ==
            IF i = 0 THEN <<>>
            ELSE LET res == F[i - 1]
                     part == parts[i]
                 IN  IF part = <<>> \/ part = Dot THEN res
                     ELSE IF part = DotDot
                     THEN (IF Len(res) > 0 /\ res[Len(res)] # DotDot
                           THEN SubSeq(res, 1, Len(res) - 1)
                           ELSE IF allowAboveRoot THEN Append(res, part) ELSE res)
                     ELSE Append(res, part)
    IN  Join(F[Len(parts)], "/")

\* path.normalize, POSIX
pathNormalize(p) ==
    IF Len(p) = 0 THEN Dot
    ELSE LET isAbsolute == p[1] = "/"
             trailingSeparator == p[Len(p)] = "/"
             normalized == normalizeString(p, ~isAbsolute)
         IN  IF Len(normalized) = 0
             THEN (IF isAbsolute THEN <<"/">>
                   ELSE IF trailingSeparator THEN <<".", "/">> ELSE Dot)
             ELSE (IF isAbsolute THEN <<"/">> ELSE <<>>)
                     \o normalized
                     \o (IF trailingSeparator THEN <<"/">> ELSE <<>>)

\* path.join, POSIX: the non-empty arguments joined by '/', then normalized
pathJoin(pathParts) ==
    LET F[i \in 0..Len(pathParts)] ==
            IF i = 0 THEN <<>>
            ELSE IF Len(pathParts[i]) > 0 THEN Append(F[i - 1], pathParts[i])
            ELSE F[i - 1]
    IN  IF Len(F[Len(pathParts)]) = 0 THEN Dot
        ELSE pathNormalize(Join(F[Len(pathParts)], "/"))

\* path.join(...pathParts), then every backslash replaced by '/'
normalizeUrlPath(pathParts) ==
    LET result == pathJoin(pathParts)
    IN  [i \in 1..Len(result) |-> IF result[i] = "\\" THEN "/" ELSE result[i]]

\* processRoutesWithSubDir with the root route joined like the others
processRoutesWithSubDir_NoRootCase(rs, customSubDir) ==
    IF customSubDir = <<>> THEN rs
    ELSE [i \in 1..Len(rs) |-> normalizeUrlPath(<<customSubDir, rs[i]>>)]

\* routeUtils.ts
processRoutesWithSubDir(rs, customSubDir) ==
    IF customSubDir = <<>> THEN rs
    ELSE [i \in 1..Len(rs) |->
            IF rs[i] = <<"/">> THEN customSubDir
            ELSE normalizeUrlPath(<<customSubDir, rs[i]>>)]

\* ---------------------------------------------- routeUtils.ts, getRoutes
PageMarker == <<"+", "p", "a", "g", "e", ".", "s", "v", "e", "l", "t", "e">>

\* directory entries as readdirSync(dir, { withFileTypes: true }) returns them
FileEntry(name) == [name |-> name, isDirectory |-> FALSE, entries |-> <<>>]
DirEntry(name, entries) == [name |-> name, isDirectory |-> TRUE, entries |-> entries]

\* name.slice(1, -1)
SliceInner(name) == SubSeq(name, 2, Len(name) - 1)

\* entry.name.startsWith(c), entry.name.endsWith(c)
StartsWith(name, c) == Len(name) > 0 /\ name[1] = c
EndsWith(name, c) == Len(name) > 0 /\ name[Len(name)] = c

\* the base path with a group directory joined to it as a segment
childBasePath_GroupAsSegment(name, basePath) ==
    IF StartsWith(name, "[") /\ EndsWith(name, "]")
    THEN normalizeUrlPath(<<basePath, <<":">> \o SliceInner(name)>>)
    ELSE normalizeUrlPath(<<basePath, name>>)

\* the base path with a [name] directory joined to it under its own name
childBasePath_DynamicAsLiteral(name, basePath) ==
    IF StartsWith(name, "(") /\ EndsWith(name, ")") THEN basePath
    ELSE normalizeUrlPath(<<basePath, name>>)

\* the base path getRoutes recurses with into a directory that is not
\* hidden: unchanged for (name), paramPath for [name], newBasePath otherwise
childBasePath(name, basePath) ==
    IF StartsWith(name, "(") /\ EndsWith(name, ")") THEN basePath
    ELSE IF StartsWith(name, "[") /\ EndsWith(name, "]")
    THEN normalizeUrlPath(<<basePath, <<":">> \o SliceInner(name)>>)
    ELSE normalizeUrlPath(<<basePath, name>>)

\* the for loop of getRoutes over the entries readdirSync returned, in that
\* order: hidden directories skipped, the other directories entered with
\* their base path, a +page.svelte file pushing basePath || "/"
RECURSIVE getRoutesOfEntries(_, _)
getRoutesOfEntries(entries, basePath) ==
    IF Len(entries) = 0 THEN <<>>
    ELSE LET entry == entries[1]
             found ==
                 IF entry.isDirectory
                 THEN IF StartsWith(entry.name, ".") THEN <<>>
                      ELSE getRoutesOfEntries(entry.entries,
                                              childBasePath(entry.name, basePath))
                 ELSE IF entry.name = PageMarker
                 THEN <<IF Len(basePath) = 0 THEN <<"/">> ELSE basePath>>
                 ELSE <<>>
         IN  found \o getRoutesOfEntries(Tail(entries), basePath)

\* getRoutes without the existsSync check: readdirSync throws for a missing
\* directory
getRoutes_NoExistsCheck(root) ==
    IF ~root.exists THEN [threw |-> TRUE, routes |-> <<>>]
    ELSE [threw |-> FALSE, routes |-> getRoutesOfEntries(root.entries, <<>>)]

\* getRoutes(dir) with basePath "": the promise it returns is fulfilled with
\* the routes, [] when the directory does not exist
getRoutes(root) ==
    IF ~root.exists THEN [threw |-> FALSE, routes |-> <<>>]
    ELSE [threw |-> FALSE, routes |-> getRoutesOfEntries(root.entries, <<>>)]

\* ---------------------------------------------- artifact name of a route
LowerCase ==
    {"a", "b", "c", "d", "e", "f", "g", "h", "i", "j", "k", "l", "m", "n", "o", "p", "q",
     "r", "s", "t", "u", "v", "w", "x", "y", "z"}
UpperCase ==
    {"A", "B", "C", "D", "E", "F", "G", "H", "I", "J", "K", "L", "M", "N", "O", "P", "Q",
     "R", "S", "T", "U", "V", "W", "X", "Y", "Z"}

\* the characters the class [^a-zA-Z0-9-_] does not match
SafeChars ==
    LowerCase \cup UpperCase
        \cup {"0", "1", "2", "3", "4", "5", "6", "7", "8", "9"} \cup {"-", "_"}

\* the artifact name without the special case of the root route
sanitizedPath_NoRootCase(routePath) ==
    LET noLead == IF Len(routePath) > 0 /\ routePath[1] = "/"
                  THEN Tail(routePath) ELSE routePath
        dashed == [i \in 1..Len(noLead) |-> IF noLead[i] = "/" THEN "-" ELSE noLead[i]]
    IN  [i \in 1..Len(dashed) |-> IF dashed[i] \in SafeChars THEN dashed[i] ELSE "_"]

\* runLighthouseAudit: routeToUse, then the three replace calls
sanitizedPath(routePath) ==
    LET routeToUse == IF routePath = <<"/">> THEN <<"r", "o", "o", "t">> ELSE routePath
        noLead == IF Len(routeToUse) > 0 /\ routeToUse[1] = "/"
                  THEN Tail(routeToUse) ELSE routeToUse
        dashed == [i \in 1..Len(noLead) |-> IF noLead[i] = "/" THEN "-" ELSE noLead[i]]
    IN  [i \in 1..Len(dashed) |-> IF dashed[i] \in SafeChars THEN dashed[i] ELSE "_"]

\* --------------------------------------------------------------- inputs
\* a routes directory with the pages +page.svelte, a/b/+page.svelte,
\* a-b/+page.svelte and [q]/[p]/+page.svelte
ProjectListing ==
    <<FileEntry(PageMarker),
      DirEntry(<<"a">>, <<DirEntry(<<"b">>, <<FileEntry(PageMarker)>>)>>),
      DirEntry(<<"a", "-", "b">>, <<FileEntry(PageMarker)>>),
      DirEntry(<<"[", "q", "]">>,
               <<DirEntry(<<"[", "p", "]">>, <<FileEntry(PageMarker)>>)>>)>>

\* what getRoutes can find, in directory order
DiscoverableRoutes == getRoutes([exists |-> TRUE, entries |-> ProjectListing]).routes

\* the routes of DiscoverableRoutes at the positions in keep, in order
RECURSIVE Pick(_, _)
Pick(s, keep) ==
    IF Len(s) = 0 THEN <<>>
    ELSE Pick(SubSeq(s, 1, Len(s) - 1), keep)
            \o (IF Len(s) \in keep THEN <<s[Len(s)]>> ELSE <<>>)

RouteLists ==
    {Pick(DiscoverableRoutes, keep) :
        keep \in {k \in SUBSET (1..Len(DiscoverableRoutes)) : Cardinality(k) <= MaxRoutes}}

\* values of --params: absent, "p=x,q=y", "q=y", "p="
ParamStrings ==
    {<<>>, <<"p", "=", "x", ",", "q", "=", "y">>, <<"q", "=", "y">>, <<"p", "=">>}

\* what the user can type at a parameter prompt
ParamAnswers == {<<"x">>, <<>>, <<" ">>}

\* what the user can type at the route selection prompt
SelectionAnswers ==
    {<<"q">>, <<"Q">>, <<"x">>, <<"0">>, <<"1">>, <<"2">>, <<"3">>, <<"4">>, <<"1", "x">>}

AuthConfigs == {"none", "valid", "missing"}

\* values of --dir: absent, "/s"
DirOptions == {<<>>, <<"/", "s">>}

\* values of --ignore: absent, "a*", "*"
IgnoreOptions == {<<>>, <<"a", "*">>, <<"*">>}

\* a concurrency limit the caller of processBatchAudits puts into the options
\* object (0: none); the function destructures baseUrl, quietMode and
\* configPath and reads nothing else of it
LimitOptions == {0, 1}

\* ---------------------------------------------------------------- state
VARIABLES
    \* command line and environment
    version, runAll, paramString, discovered, cpus, authConfigPath, optionsLimit,
    customSubDir, ignore,
    \* runLighthouse
    pc, presetParamValues, routes, displayRoutes, paramValues, userParamValues,
    promptQueue, routeToAudit, closeHandler, exited, exitCode, outcome,
    indexGenerated, browserOpen, routeIndex, selections, promptLog,
    \* processBatchAudits and the audits
    processedRoutes, stage, running, raceResult, completed, files, reports,
    auditLog, progressLog, seqIdx,
    \* a call of a utility function on its own: the arguments, the values returned
    call, results,
    \* fileUtils.ts: the module variable of getReportDir, the clock, the report
    \* directories on disk, the mkdirSync calls made
    currentReportDir, now, reportDirs, mkdirLog

inputVars == <<version, runAll, paramString, discovered, cpus, authConfigPath,
               optionsLimit, customSubDir, ignore>>
cliVars == <<pc, presetParamValues, routes, displayRoutes, paramValues, userParamValues,
             promptQueue, routeToAudit, closeHandler, exited, exitCode, outcome,
             indexGenerated, browserOpen, routeIndex, selections, promptLog>>
batchVars == <<processedRoutes, stage, running, raceResult, completed, files, reports,
               auditLog, progressLog, seqIdx>>
dirVars == <<currentReportDir, now, reportDirs, mkdirLog>>
fnVars == <<call, results, dirVars>>
vars == <<inputVars, cliVars, batchVars, fnVars>>

\* ------------------------------------------------------------ index.ts
\* paramString.split(",").forEach(pair => { [key, value] = pair.split("="); ... })
parsePresetParams(str) ==
    IF str = <<>> THEN EmptyObject
    ELSE LET pairs == Split(str, ",")
             F[i \in 0..Len(pairs)] ==
                 IF i = 0 THEN EmptyObject
                 ELSE LET kv == Split(pairs[i], "=")
                          key == kv[1]
                          value == IF Len(kv) >= 2 THEN kv[2] ELSE <<>>
                      IN  IF key # <<>> /\ value # <<>>
                          THEN Put(F[i - 1], key, value)
                          ELSE F[i - 1]
         IN  F[Len(pairs)]

\* the missing parameters, the last one first
missingParams_Reversed(uniqueParams, pv) ==
    LET F[i \in 0..Len(uniqueParams)] ==
            IF i = 0 THEN <<>>
            ELSE IF Truthy(pv, uniqueParams[i]) THEN F[i - 1]
                 ELSE <<uniqueParams[i]>> \o F[i - 1]
    IN  F[Len(uniqueParams)]

\* uniqueParams.filter((param) => !paramValues[param])
missingParams(uniqueParams, pv) ==
    LET F[i \in 0..Len(uniqueParams)] ==
            IF i = 0 THEN <<>>
            ELSE IF Truthy(pv, uniqueParams[i]) THEN F[i - 1]
                 ELSE Append(F[i - 1], uniqueParams[i])
    IN  F[Len(uniqueParams)]

\* variant: the run never takes itself for a CI run
presetsSupplied_Never(presets) == FALSE

\* Object.keys(presetParamValues).length > 0
presetsSupplied(presets) == DOMAIN presets # {}

\* the exit code of "rl.close(); <following>": rl.close() emits 'close'
\* synchronously, and a registered handler calls process.exit(0) first;
\* following is the code of what comes next (process.exit(1), or 0 when the
\* program just runs to its end)
exitCodeOnClose(handlerRegistered, following) ==
    IF handlerRegistered THEN 0 ELSE following

\* parseInt(answer): the value of the leading decimal digits, NaN without
Digits == <<"0", "1", "2", "3", "4", "5", "6", "7", "8", "9">>
IsDigit(c) == \E d \in 1..10 : Digits[d] = c
DigitValue(c) == (CHOOSE d \in 1..10 : Digits[d] = c) - 1

parseInt(str) ==
    LET s == TrimLeft(str)
        F[i \in 0..Len(s)] ==
            IF i = 0 THEN [nan |-> TRUE, val |-> 0, open |-> TRUE]
            ELSE IF F[i - 1].open /\ IsDigit(s[i])
                 THEN [nan |-> FALSE, val |-> F[i - 1].val * 10 + DigitValue(s[i]),
                       open |-> TRUE]
                 ELSE [F[i - 1] EXCEPT !.open = FALSE]
    IN  [nan |-> F[Len(s)].nan, val |-> F[Len(s)].val]

\* options.ignore ? options.ignore.split(",").map((pattern) => pattern.trim()) : []
ignorePatternsOf(ignoreOption) ==
    IF ignoreOption = <<>> THEN <<>>
    ELSE LET parts == Split(ignoreOption, ",")
         IN  [i \in 1..Len(parts) |-> Trim(parts[i])]

\* pattern.replace(/\*/g, ".*")
RECURSIVE regexPatternOf(_)
regexPatternOf(pattern) ==
    IF Len(pattern) = 0 THEN <<>>
    ELSE (IF pattern[1] = "*" THEN <<".", "*">> ELSE <<pattern[1]>>)
            \o regexPatternOf(Tail(pattern))

\* new RegExp("^" + source + "$").test(str) for a source made of the
\* characters '/', '-', letters, '.' and '*': an atom is one character, '.'
\* matches any character, an atom followed by '*' matches it zero or more times
RECURSIVE regexTest(_, _)
regexTest(source, str) ==
    IF Len(source) = 0 THEN Len(str) = 0
    ELSE LET atomMatches == Len(str) > 0 /\ (source[1] = "." \/ source[1] = str[1])
         IN  IF Len(source) >= 2 /\ source[2] = "*"
             THEN \/ regexTest(SubSeq(source, 3, Len(source)), str)
                  \/ atomMatches /\ regexTest(source, Tail(str))
             ELSE atomMatches /\ regexTest(Tail(source), Tail(str))

\* the filter keeping every route
filterIgnored_KeepAll(rs, ignorePatterns) == rs

\* if (ignorePatterns.length > 0) routes = routes.filter((route) =>
\*     !ignorePatterns.some((pattern) => regex.test(route)))
filterIgnored(rs, ignorePatterns) ==
    IF Len(ignorePatterns) = 0 THEN rs
    ELSE SelectSeq(rs, LAMBDA route :
            ~\E k \in 1..Len(ignorePatterns) :
                regexTest(regexPatternOf(ignorePatterns[k]), route))

\* answer.toLowerCase() === "q"
isQuit(answer) == answer = <<"q">> \/ answer = <<"Q">>

\* --------------------------------------------------------- executor.ts
\* Math.max(1, os.cpus().length - 1)
CONCURRENCY_LIMIT == Max(1, cpus - 1)

\* routes.map(route => ({ originalRoute, processedRoute, completed, inProgress }))
newProcessedRoutes(rs, pv) ==
    [i \in 1..Len(rs) |->
        [originalRoute |-> rs[i],
         processedRoute |-> applyParamValues(rs[i], pv),
         completed |-> FALSE,
         inProgress |-> FALSE]]

\* variant: find(route => !route.completed), the in-progress flag is not read
getNextRoute_IgnoresInProgress(prs) ==
    IF \E i \in 1..Len(prs) : ~prs[i].completed
    THEN CHOOSE i \in 1..Len(prs) :
            ~prs[i].completed /\ \A j \in 1..(i - 1) : prs[j].completed
    ELSE 0

\* variant: the last item that is neither completed nor in progress
getNextRoute_LastPending(prs) ==
    IF \E i \in 1..Len(prs) : ~prs[i].completed /\ ~prs[i].inProgress
    THEN CHOOSE i \in 1..Len(prs) :
            /\ ~prs[i].completed /\ ~prs[i].inProgress
            /\ \A j \in (i + 1)..Len(prs) : prs[j].completed \/ prs[j].inProgress
    ELSE 0

\* processedRoutes.find(route => !route.completed && !route.inProgress):
\* the index of the first such item, 0 for undefined
getNextRoute(prs) ==
    IF \E i \in 1..Len(prs) : ~prs[i].completed /\ ~prs[i].inProgress
    THEN CHOOSE i \in 1..Len(prs) :
            /\ ~prs[i].completed /\ ~prs[i].inProgress
            /\ \A j \in 1..(i - 1) : prs[j].completed \/ prs[j].inProgress
    ELSE 0

\* variant: running.size <= CONCURRENCY_LIMIT
poolHasRoom_OffByOne(size) == size <= CONCURRENCY_LIMIT

\* variant: running.size < CONCURRENCY_LIMIT - 1
poolHasRoom_OneShort(size) == size < CONCURRENCY_LIMIT - 1

\* running.size < CONCURRENCY_LIMIT
poolHasRoom(size) == size < CONCURRENCY_LIMIT

\* processRoute storing the route with a leading slash back into the item
startRoute_RewritesRoute(st, i) ==
    [prs |-> [st.prs EXCEPT ![i].inProgress = TRUE,
                            ![i].processedRoute = <<"/">> \o @],
     stage |-> Append(st.stage, "auditing"),
     running |-> st.running \cup {Len(st.log) + 1},
     log |-> Append(st.log, [item |-> i, route |-> st.prs[i].processedRoute,
                             result |-> "pending"])]

\* processRoute up to its await: the item is marked in progress and the audit
\* is invoked; the promise of the call, numbered by its place in auditLog,
\* joins running
startRoute(st, i) ==
    [prs |-> [st.prs EXCEPT ![i].inProgress = TRUE],
     stage |-> Append(st.stage, "auditing"),
     running |-> st.running \cup {Len(st.log) + 1},
     log |-> Append(st.log, [item |-> i, route |-> st.prs[i].processedRoute,
                             result |-> "pending"])]

\* the initial fill starting one worker only
initialFill_SingleWorker(st, i) ==
    IF getNextRoute(st.prs) = 0 THEN st ELSE startRoute(st, getNextRoute(st.prs))

\* for (let i = 0; i < CONCURRENCY_LIMIT; i++) { getNextRoute, break, processRoute }
RECURSIVE initialFill(_, _)
initialFill(st, i) ==
    IF ~(i < CONCURRENCY_LIMIT) \/ getNextRoute(st.prs) = 0
    THEN st
    ELSE initialFill(startRoute(st, getNextRoute(st.prs)), i + 1)

\* while (running.size < CONCURRENCY_LIMIT) { getNextRoute, break, processRoute }
RECURSIVE refill(_)
refill(st) ==
    IF ~poolHasRoom(Cardinality(st.running)) \/ getNextRoute(st.prs) = 0
    THEN st
    ELSE refill(startRoute(st, getNextRoute(st.prs)))

\* variant: no catch block, a failed audit rejects processRoute before the
\* two assignments
processRouteSettled_NoCatch(ok) ==
    [counted |-> ok, rejected |-> ~ok]

\* processRoute after its await: the try block counts a success, the catch
\* block absorbs a failure, and both fall through to the two assignments
processRouteSettled(ok) ==
    [counted |-> ok, rejected |-> FALSE]

\* the end of processRoute with the in-progress flag left set
markCompleted_StillInProgress(prs, i) ==
    [prs EXCEPT ![i].completed = TRUE]

\* route.completed = true; route.inProgress = false;
markCompleted(prs, i) ==
    [prs EXCEPT ![i].completed = TRUE, ![i].inProgress = FALSE]

\* collectReports: routeToUse and the three replace calls of the collector
collectorSanitizedPath(processedRoute) ==
    LET routeToUse == IF processedRoute = <<"/">> THEN <<"r", "o", "o", "t">>
                      ELSE processedRoute
        first == IF Len(routeToUse) > 0 /\ routeToUse[1] = "/"
                 THEN Tail(routeToUse) ELSE routeToUse
        second == [i \in 1..Len(first) |-> IF first[i] = "/" THEN "-" ELSE first[i]]
    IN  [i \in 1..Len(second) |-> IF second[i] \in SafeChars THEN second[i] ELSE "_"]

\* collectReports giving up at the first item without an artifact
collectReports_StopsAtMissing(prs, reportDir) ==
    LET F[i \in 0..Len(prs)] ==
            IF i = 0 THEN [open |-> TRUE, reports |-> <<>>]
            ELSE IF /\ F[i - 1].open
                    /\ collectorSanitizedPath(prs[i].processedRoute) \in reportDir.files
                 THEN [F[i - 1] EXCEPT !.reports =
                          Append(@, [route |-> prs[i].processedRoute,
                                     file |-> collectorSanitizedPath(prs[i].processedRoute)])]
                 ELSE [F[i - 1] EXCEPT !.open = FALSE]
    IN  IF reportDir.exists THEN F[Len(prs)].reports ELSE <<>>

\* collectReports putting each entry in front of the ones found before
collectReports_Prepends(prs, reportDir) ==
    LET F[i \in 0..Len(prs)] ==
            IF i = 0 THEN <<>>
            ELSE IF collectorSanitizedPath(prs[i].processedRoute) \in reportDir.files
                 THEN <<[route |-> prs[i].processedRoute,
                         file |-> collectorSanitizedPath(prs[i].processedRoute)]>>
                          \o F[i - 1]
                 ELSE F[i - 1]
    IN  IF reportDir.exists THEN F[Len(prs)] ELSE <<>>

\* collectReports: nothing when the directory does not exist, otherwise one
\* entry per item whose artifact name is in the directory
collectReports(prs, reportDir) ==
    LET F[i \in 0..Len(prs)] ==
            IF i = 0 THEN <<>>
            ELSE IF collectorSanitizedPath(prs[i].processedRoute) \in reportDir.files
                 THEN Append(F[i - 1],
                             [route |-> prs[i].processedRoute,
                              file |-> collectorSanitizedPath(prs[i].processedRoute)])
                 ELSE F[i - 1]
    IN  IF reportDir.exists THEN F[Len(prs)] ELSE <<>>

\* the item a promise of running belongs to
ItemOf(p) == auditLog[p].item

\* process.exit(code), also the program running to its end with that code
Terminate(code, why) ==
    /\ exited' = TRUE
    /\ exitCode' = code
    /\ outcome' = why
    /\ pc' = "exited"

\* processBatchAudits up to the first await of executeWithDynamicScheduling
BatchStart ==
    /\ pc = "batchStart"
    /\ LET prs == newProcessedRoutes(routes, paramValues)
           st == initialFill([prs |-> prs, stage |-> <<>>, running |-> {}, log |-> <<>>], 0)
       IN  /\ processedRoutes' = st.prs
           /\ stage' = st.stage
           /\ running' = st.running
           /\ auditLog' = st.log
           /\ pc' = IF st.running = {} THEN "schedDone" ELSE "race"
    /\ completed' = 0
    /\ raceResult' = "pending"
    /\ UNCHANGED <<inputVars, fnVars, routeIndex, selections, promptLog,
                   presetParamValues, routes, displayRoutes, paramValues,
                   userParamValues, promptQueue, routeToAudit, closeHandler, exited,
                   exitCode, outcome, indexGenerated, browserOpen, files, reports,
                   progressLog, seqIdx>>

\* the lighthouse child process of promise p exits: with code 0 after writing
\* the report to its output path (the audit resolves), with another code
\* and no report (the audit rejects)
AuditSettles(p, ok) ==
    /\ pc = "race"
    /\ p \in 1..Len(stage)
    /\ auditLog[p].result = "pending"
    /\ auditLog' = [auditLog EXCEPT ![p].result = IF ok THEN "ok" ELSE "fail"]
    /\ files' = IF ok THEN files \cup {sanitizedPath(auditLog[p].route)} ELSE files
    /\ UNCHANGED <<inputVars, fnVars, cliVars, processedRoutes, stage, running, raceResult,
                   completed, reports, progressLog, seqIdx>>

\* completed++ with the increment lost
incrementCompleted_Lost(count) == count

\* completed++ in processRoute, after the awaited audit resolved
incrementCompleted(count) == count + 1

\* processRoute resumes after the await of promise p
ProcessRouteResumes(p) ==
    /\ pc = "race"
    /\ p \in 1..Len(stage)
    /\ stage[p] = "auditing"
    /\ auditLog[p].result # "pending"
    /\ LET r == processRouteSettled(auditLog[p].result = "ok")
       IN  /\ completed' = IF r.counted THEN incrementCompleted(completed) ELSE completed
           /\ progressLog' = IF r.counted
                             THEN Append(progressLog, incrementCompleted(completed))
                             ELSE progressLog
           /\ processedRoutes' =
                 IF r.rejected THEN processedRoutes
                 ELSE markCompleted(processedRoutes, ItemOf(p))
           /\ stage' = [stage EXCEPT ![p] = IF r.rejected THEN "procRejected"
                                            ELSE "procDone"]
    /\ UNCHANGED <<inputVars, fnVars, cliVars, running, raceResult, files, reports, auditLog,
                   seqIdx>>

\* .then(() => running.delete(promise)) of promise p: runs when processRoute
\* fulfilled, is skipped when it rejected; either way the promise held in
\* running settles and with it a pending Promise.race
ThenCallback(p) ==
    /\ pc = "race"
    /\ p \in 1..Len(stage)
    /\ stage[p] \in {"procDone", "procRejected"}
    /\ running' = IF stage[p] = "procDone" THEN running \ {p} ELSE running
    /\ stage' = [stage EXCEPT ![p] = IF stage[p] = "procDone" THEN "removed"
                                     ELSE "wrapRejected"]
    /\ raceResult' = IF raceResult # "pending" THEN raceResult
                     ELSE IF stage[p] = "procDone" THEN "fulfilled" ELSE "rejected"
    /\ UNCHANGED <<inputVars, fnVars, cliVars, processedRoutes, completed, files, reports,
                   auditLog, progressLog, seqIdx>>

\* executeWithDynamicScheduling resumes from await Promise.race(running):
\* refills the pool, then waits again or returns; a rejected race throws out
\* of processBatchAudits into the catch block of runLighthouse
SchedulerResumes ==
    /\ pc = "race"
    /\ raceResult # "pending"
    /\ IF raceResult = "rejected"
       THEN /\ Terminate(exitCodeOnClose(closeHandler, 1), "batchThrew")
            /\ UNCHANGED <<processedRoutes, stage, running, auditLog, raceResult>>
       ELSE LET st == refill([prs |-> processedRoutes, stage |-> stage,
                              running |-> running, log |-> auditLog])
            IN  /\ processedRoutes' = st.prs
                /\ stage' = st.stage
                /\ running' = st.running
                /\ auditLog' = st.log
                /\ pc' = IF st.running = {} THEN "schedDone" ELSE "race"
                /\ raceResult' =
                      IF \E q \in st.running : st.stage[q] = "wrapRejected"
                      THEN "rejected" ELSE "pending"
                /\ UNCHANGED <<exited, exitCode, outcome>>
    /\ UNCHANGED <<inputVars, fnVars, routeIndex, selections, promptLog,
                   presetParamValues, routes, displayRoutes, paramValues,
                   userParamValues, promptQueue, routeToAudit, closeHandler,
                   indexGenerated, browserOpen, completed, files, reports, progressLog,
                   seqIdx>>

\* processBatchAudits after executeWithDynamicScheduling: getReportDir, which
\* creates the directory when no audit did, and collectReports
CollectReports ==
    /\ pc = "schedDone"
    /\ reports' = collectReports(processedRoutes, [exists |-> TRUE, files |-> files])
    /\ pc' = "batchReturned"
    /\ UNCHANGED <<inputVars, fnVars, routeIndex, selections, promptLog,
                   presetParamValues, routes, displayRoutes, paramValues,
                   userParamValues, promptQueue, routeToAudit, closeHandler, exited,
                   exitCode, outcome, indexGenerated, browserOpen, processedRoutes,
                   stage, running, raceResult, completed, files, auditLog, progressLog,
                   seqIdx>>

\* --------------------------------------------------------- fileUtils.ts
\* let currentReportDir: string | null = null
NoReportDir == 0

\* the directory name of a point in time:
\* path.join(REPORTS_DIR, `report-${new Date().toISOString().replace(/[:.]/g, "-")}`);
\* toISOString has a fixed layout, so distinct milliseconds give distinct names
reportDirAt(time) == time

\* getReportDir choosing a directory on every call
getReportDir_NoMemo(current, time, dirs) ==
    [currentReportDir |-> reportDirAt(time),
     dirs |-> dirs \cup {reportDirAt(time)},
     mkdir |-> IF reportDirAt(time) \in dirs THEN <<>> ELSE <<reportDirAt(time)>>,
     returned |-> reportDirAt(time)]

\* getReportDir: the directory is chosen, and created unless it exists, when
\* currentReportDir is null; the value of currentReportDir is returned
getReportDir(current, time, dirs) ==
    IF current = NoReportDir
    THEN [currentReportDir |-> reportDirAt(time),
          dirs |-> dirs \cup {reportDirAt(time)},
          mkdir |-> IF reportDirAt(time) \in dirs THEN <<>> ELSE <<reportDirAt(time)>>,
          returned |-> reportDirAt(time)]
    ELSE [currentReportDir |-> current, dirs |-> dirs, mkdir |-> <<>>,
          returned |-> current]

\* ------------------------------------------------- runLighthouse, index.ts
\* the state of runLighthouse and processBatchAudits before the first statement
NotStarted ==
    /\ presetParamValues = EmptyObject
    /\ routes = <<>>
    /\ displayRoutes = <<>>
    /\ paramValues = EmptyObject
    /\ userParamValues = EmptyObject
    /\ promptQueue = <<>>
    /\ routeToAudit = <<>>
    /\ closeHandler = FALSE
    /\ exited = FALSE
    /\ exitCode = 0
    /\ outcome = "none"
    /\ indexGenerated = FALSE
    /\ browserOpen = FALSE
    /\ routeIndex = -1
    /\ selections = <<>>
    /\ promptLog = <<>>
    /\ processedRoutes = <<>>
    /\ stage = <<>>
    /\ running = {}
    /\ raceResult = "pending"
    /\ completed = 0
    /\ files = {}
    /\ reports = <<>>
    /\ auditLog = <<>>
    /\ progressLog = <<>>
    /\ seqIdx = 0
    /\ currentReportDir = NoReportDir
    /\ now = 1
    /\ mkdirLog = <<>>

\* no utility function is called on its own
NoCall ==
    [fn |-> "none", route |-> <<>>, values |-> EmptyObject, routes |-> <<>>,
     baseUrl |-> <<>>, patterns |-> <<>>, dir |-> <<>>,
     tree |-> [exists |-> FALSE, entries |-> <<>>],
     reportDir |-> [exists |-> FALSE, files |-> {}]]

Init ==
    /\ version \in {1, 2}
    /\ runAll \in BOOLEAN
    /\ paramString \in ParamStrings
    /\ discovered \in RouteLists
    /\ cpus \in 1..MaxCpus
    \* CONCURRENCY_LIMIT is read by processBatchAudits only
    /\ ~(version = 1 /\ runAll) => cpus = 1
    /\ authConfigPath \in AuthConfigs
    /\ version = 1 => authConfigPath = "none"
    /\ optionsLimit \in LimitOptions
    /\ ~(version = 1 /\ runAll) => optionsLimit = 0
    /\ customSubDir \in DirOptions
    /\ ignore \in IgnoreOptions
    /\ version = 1 => ignore = <<>>
    /\ pc = "start"
    /\ NotStarted
    /\ call = NoCall
    /\ results = <<>>
    /\ reportDirs = {}

\* where the run goes once the parameter values of --all are known
AllAuditsEntry == IF version = 1 THEN "batchStart" ELSE "launch"

\* the copy of the routes for display taken before the ignore filter
displayRoutesOf_Unfiltered(found, filtered) == found

\* const displayRoutes = [...routes], after the ignore filter and before
\* processRoutesWithSubDir
displayRoutesOf(found, filtered) == filtered

\* runLighthouse from its first line to its first suspension: options, preset
\* parameters, readline, route discovery, the zero-route check, the ignore
\* filter (v2), the custom directory, and the parameter check of --all, or
\* the route list and question of interactive mode
Start ==
    /\ pc = "start"
    /\ LET presets == parsePresetParams(paramString)
           handler == (version = 2)
           filtered == IF version = 2
                       THEN filterIgnored(discovered, ignorePatternsOf(ignore))
                       ELSE discovered
           withSubDir == processRoutesWithSubDir(filtered, customSubDir)
           uniqueParams == extractUniqueParams(withSubDir)
           missing == missingParams(uniqueParams, presets)
       IN  /\ presetParamValues' = presets
           /\ IF Len(discovered) = 0
              THEN \* v1: rl.close(); return.  v2: throw, caught: rl.close(); process.exit(1)
                   /\ Terminate(exitCodeOnClose(handler, IF version = 1 THEN 0 ELSE 1),
                                "noRoutes")
                   /\ closeHandler' = handler
                   /\ UNCHANGED <<routes, displayRoutes, paramValues, promptQueue,
                                  promptLog>>
              ELSE /\ routes' = withSubDir
                   /\ displayRoutes' = displayRoutesOf(discovered, filtered)
                   /\ IF runAll
                      THEN /\ paramValues' = presets
                           /\ closeHandler' = handler
                           /\ IF Len(missing) > 0 /\ ~presetsSupplied(presets)
                              THEN \* collectParameterValues: the first rl.question
                                   /\ promptQueue' = missing
                                   /\ promptLog' = <<Head(missing)>>
                                   /\ pc' = "promptAll"
                                   /\ UNCHANGED <<exited, exitCode, outcome>>
                              ELSE IF Len(missing) > 0
                              THEN /\ Terminate(exitCodeOnClose(handler, 1), "missingParams")
                                   /\ UNCHANGED <<promptQueue, promptLog>>
                              ELSE /\ pc' = AllAuditsEntry
                                   /\ UNCHANGED <<promptQueue, promptLog, exited, exitCode,
                                                  outcome>>
                      ELSE \* rl.question is issued; in v1 the code after the try
                           \* block now registers the 'close' handler
                           /\ pc' = "select"
                           /\ closeHandler' = TRUE
                           /\ UNCHANGED <<paramValues, promptQueue, promptLog, exited,
                                          exitCode, outcome>>
    /\ UNCHANGED <<inputVars, fnVars, userParamValues, routeToAudit, indexGenerated,
                   browserOpen, routeIndex, selections, batchVars>>

\* runLighthouseAudit(url, routeToAudit, ...) of the single-route path is
\* invoked directly in v1 and inside runWithBrowserContext in v2
SingleAuditEntry(route) ==
    IF version = 1
    THEN /\ pc' = "singleAudit"
         /\ auditLog' = Append(auditLog, [item |-> 0, route |-> route,
                                          result |-> "pending"])
    ELSE /\ pc' = "launch"
         /\ UNCHANGED auditLog

\* collectParameterValues: the callback of one rl.question; after the last
\* answer the caller merges the values and goes on to the audits
AnswerParam(answer) ==
    /\ pc \in {"promptAll", "promptOne"}
    /\ promptQueue # <<>>
    /\ LET collected == Put(userParamValues, Head(promptQueue), Trim(answer))
           merged == Spread(paramValues, collected)
       IN  /\ userParamValues' = collected
           /\ promptQueue' = Tail(promptQueue)
           /\ IF Tail(promptQueue) # <<>>
              THEN \* the next iteration of the for loop: the next rl.question
                   /\ promptLog' = Append(promptLog, promptQueue[2])
                   /\ UNCHANGED <<pc, paramValues, routeToAudit, auditLog>>
              ELSE /\ paramValues' = merged
                   /\ UNCHANGED promptLog
                   /\ IF pc = "promptAll"
                      THEN /\ pc' = AllAuditsEntry
                           /\ UNCHANGED <<routeToAudit, auditLog>>
                      ELSE /\ routeToAudit' = applyParamValues(routeToAudit, merged)
                           /\ SingleAuditEntry(applyParamValues(routeToAudit, merged))
    /\ UNCHANGED <<inputVars, fnVars, routeIndex, selections,
                   presetParamValues, routes, displayRoutes, closeHandler,
                   exited, exitCode, outcome, indexGenerated, browserOpen,
                   processedRoutes, stage, running, raceResult, completed, files,
                   reports, progressLog, seqIdx>>

\* the callback of the route selection question
SelectRoute(answer) ==
    /\ pc = "select"
    /\ selections' = Append(selections, answer)
    /\ LET parsed == parseInt(answer)
           idx == parsed.val - 1
       IN  routeIndex' = IF ~isQuit(answer) /\ ~parsed.nan /\ idx >= 0 /\ idx < Len(routes)
                         THEN idx ELSE routeIndex
    /\ LET parsed == parseInt(answer)
           idx == parsed.val - 1
           chosen == routes[idx + 1]
           uniqueParams == extractUniqueParams(<<chosen>>)
           missing == missingParams(uniqueParams, presetParamValues)
       IN  IF isQuit(answer)
           THEN /\ Terminate(exitCodeOnClose(closeHandler, 0), "quit")
                /\ UNCHANGED <<paramValues, promptQueue, routeToAudit, auditLog>>
           ELSE IF parsed.nan \/ idx < 0 \/ idx >= Len(routes)
           THEN /\ Terminate(exitCodeOnClose(closeHandler, 0), "invalidSelection")
                /\ UNCHANGED <<paramValues, promptQueue, routeToAudit, auditLog>>
           ELSE IF ~IncludesColon(chosen)
           THEN /\ routeToAudit' = chosen
                /\ SingleAuditEntry(chosen)
                /\ UNCHANGED <<paramValues, promptQueue, exited, exitCode, outcome>>
           ELSE IF Len(missing) > 0 /\ presetsSupplied(presetParamValues)
           THEN \* rl.close(); process.exit(1)
                /\ Terminate(exitCodeOnClose(closeHandler, 1), "missingParams")
                /\ routeToAudit' = chosen
                /\ paramValues' = presetParamValues
                /\ UNCHANGED <<promptQueue, auditLog>>
           ELSE IF Len(missing) > 0
           THEN /\ pc' = "promptOne"
                /\ promptQueue' = missing
                /\ routeToAudit' = chosen
                /\ paramValues' = presetParamValues
                /\ UNCHANGED <<auditLog, exited, exitCode, outcome>>
           ELSE /\ routeToAudit' = applyParamValues(chosen, presetParamValues)
                /\ paramValues' = presetParamValues
                /\ SingleAuditEntry(applyParamValues(chosen, presetParamValues))
                /\ UNCHANGED <<promptQueue, exited, exitCode, outcome>>
    \* collectParameterValues: the first rl.question
    /\ promptLog' = IF pc' = "promptOne" THEN <<Head(promptQueue')>> ELSE promptLog
    /\ UNCHANGED <<inputVars, fnVars, presetParamValues, routes, displayRoutes, userParamValues,
                   closeHandler, indexGenerated, browserOpen, processedRoutes, stage,
                   running, raceResult, completed, files, reports, progressLog, seqIdx>>

\* v1, --all: runLighthouse after processBatchAudits returned: the report
\* index, rl.close(), and then the registration of the 'close' handler
FinishAll ==
    /\ pc = "batchReturned"
    /\ indexGenerated' = (Len(reports) > 0)
    /\ Terminate(exitCodeOnClose(closeHandler, 0), "completed")
    /\ closeHandler' = TRUE
    /\ UNCHANGED <<inputVars, fnVars, routeIndex, selections, promptLog,
                   presetParamValues, routes, displayRoutes, paramValues,
                   userParamValues, promptQueue, routeToAudit, browserOpen, batchVars>>

\* v2, runWithBrowserContext up to the first audit: puppeteer.launch, the
\* browser context, authenticateLighthouse when --auth was given (it throws
\* when the file cannot be read or a step fails), then fn
Launch(authOk) ==
    /\ pc = "launch"
    /\ authConfigPath = "none" => authOk
    /\ authConfigPath = "missing" => ~authOk
    /\ browserOpen' = ~(authOk /\ runAll /\ Len(routes) = 0)
    /\ IF ~authOk
       THEN \* --all: caught by runLighthouse: rl.close(); process.exit(1)
            \* single route: caught by the callback, which then calls rl.close()
            /\ Terminate(exitCodeOnClose(closeHandler, IF runAll THEN 1 ELSE 0),
                         "authFailed")
            /\ UNCHANGED <<auditLog, seqIdx>>
       ELSE IF runAll /\ Len(routes) = 0
       THEN \* every route was ignored: the loop body never runs, the browser is
            \* closed, there is no report for an index, rl.close()
            /\ Terminate(exitCodeOnClose(closeHandler, 0), "completed")
            /\ UNCHANGED <<auditLog, seqIdx>>
       ELSE IF runAll
       THEN /\ seqIdx' = 1
            /\ auditLog' = Append(auditLog,
                    [item |-> 1, route |-> applyParamValues(routes[1], paramValues),
                     result |-> "pending"])
            /\ pc' = "seqAudit"
            /\ UNCHANGED <<exited, exitCode, outcome>>
       ELSE /\ auditLog' = Append(auditLog, [item |-> 0, route |-> routeToAudit,
                                             result |-> "pending"])
            /\ pc' = "singleAudit"
            /\ UNCHANGED <<seqIdx, exited, exitCode, outcome>>
    /\ UNCHANGED <<inputVars, fnVars, routeIndex, selections, promptLog,
                   presetParamValues, routes, displayRoutes, paramValues,
                   userParamValues, promptQueue, routeToAudit, closeHandler,
                   indexGenerated, processedRoutes, stage, running, raceResult,
                   completed, files, reports, progressLog>>

\* v2, --all: the audit of routes[seqIdx] settles inside the for loop; the
\* loop goes on to the next route, or ends: browser.close(), the report
\* index, rl.close()
SeqAuditSettles(ok) ==
    /\ pc = "seqAudit"
    /\ LET route == auditLog[Len(auditLog)].route
           settled == [auditLog EXCEPT ![Len(auditLog)].result =
                                            IF ok THEN "ok" ELSE "fail"]
           newReports == IF ok THEN Append(reports, [route |-> route,
                                                     file |-> sanitizedPath(route)])
                         ELSE reports
       IN  /\ files' = IF ok THEN files \cup {sanitizedPath(route)} ELSE files
           /\ reports' = newReports
           /\ progressLog' = IF ok THEN Append(progressLog, seqIdx) ELSE progressLog
           /\ IF seqIdx < Len(routes)
              THEN /\ seqIdx' = seqIdx + 1
                   /\ auditLog' = Append(settled,
                         [item |-> seqIdx + 1,
                          route |-> applyParamValues(routes[seqIdx + 1], paramValues),
                          result |-> "pending"])
                   /\ UNCHANGED <<pc, exited, exitCode, outcome, indexGenerated,
                                  browserOpen>>
              ELSE /\ browserOpen' = FALSE
                   /\ indexGenerated' = (Len(newReports) > 0)
                   /\ Terminate(exitCodeOnClose(closeHandler, 0), "completed")
                   /\ auditLog' = settled
                   /\ UNCHANGED seqIdx
    /\ UNCHANGED <<inputVars, fnVars, routeIndex, selections, promptLog,
                   presetParamValues, routes, displayRoutes, paramValues,
                   userParamValues, promptQueue, routeToAudit, closeHandler,
                   processedRoutes, stage, running, raceResult, completed>>

\* the audit of the single-route path settles: the report index on success,
\* the error message on failure, then rl.close()
SingleAuditSettles(ok) ==
    /\ pc = "singleAudit"
    /\ LET route == auditLog[Len(auditLog)].route
       IN  /\ files' = IF ok THEN files \cup {sanitizedPath(route)} ELSE files
           /\ reports' = IF ok THEN <<[route |-> route, file |-> sanitizedPath(route)]>>
                         ELSE reports
    /\ auditLog' = [auditLog EXCEPT ![Len(auditLog)].result = IF ok THEN "ok" ELSE "fail"]
    /\ indexGenerated' = ok
    /\ browserOpen' = FALSE
    /\ Terminate(exitCodeOnClose(closeHandler, 0),
                 IF ok THEN "completed" ELSE "auditFailed")
    /\ UNCHANGED <<inputVars, fnVars, routeIndex, selections, promptLog,
                   presetParamValues, routes, displayRoutes, paramValues,
                   userParamValues, promptQueue, routeToAudit, closeHandler,
                   processedRoutes, stage, running, raceResult, completed,
                   progressLog, seqIdx>>

Next ==
    \/ Start
    \/ \E answer \in ParamAnswers : AnswerParam(answer)
    \/ \E answer \in SelectionAnswers : SelectRoute(answer)
    \/ BatchStart
    \/ \E p \in 1..Len(stage), ok \in BOOLEAN : AuditSettles(p, ok)
    \/ \E p \in 1..Len(stage) : ProcessRouteResumes(p)
    \/ \E p \in 1..Len(stage) : ThenCallback(p)
    \/ SchedulerResumes
    \/ CollectReports
    \/ FinishAll
    \/ \E authOk \in BOOLEAN : Launch(authOk)
    \/ \E ok \in BOOLEAN : SeqAuditSettles(ok)
    \/ \E ok \in BOOLEAN : SingleAuditSettles(ok)

Spec == Init /\ [][Next]_vars

\* the scheduler's microtasks run and every audit settles
FairSpec ==
    /\ Spec
    /\ WF_vars(\E p \in 1..Len(stage), ok \in BOOLEAN : AuditSettles(p, ok))
    /\ WF_vars(\E p \in 1..Len(stage) : ProcessRouteResumes(p))
    /\ WF_vars(\E p \in 1..Len(stage) : ThenCallback(p))
    /\ WF_vars(SchedulerResumes)

\* ------------------------------- the utility functions called on their own
\* values of --dir: a directory, with a slash at the end, without one in
\* front, the root, two levels, an empty segment inside, a '..' inside
FnDirs ==
    {<<"/", "s">>, <<"/", "s", "/">>, <<"s">>, <<"/">>, <<"/", "s", "/", "t">>,
     <<"/", "s", "/", "/", "t">>, <<"/", "s", "/", ".", ".", "/", "t">>}

\* segments of a route: empty, plain, ':' alone, ':p', ':q'
FnSegments == {<<>>, <<"a">>, <<":">>, <<":", "p">>, <<":", "q">>}

\* the routes of n segments
FnRoutesOfLength(n) == {Join(segs, "/") : segs \in [1..n -> FnSegments]}

FnRoutes == UNION {FnRoutesOfLength(n) : n \in 1..MaxSegments}

\* values of a ParamValues dictionary: empty, plain, with a ':' in front,
\* with a '/' inside
FnValues == {<<>>, <<"x">>, <<":", "q">>, <<"x", "/", "y">>}

FnParamValues == UNION {[keys -> FnValues] : keys \in SUBSET {<<"p">>, <<"q">>}}

\* lists of no route, of one route, and of a route followed by one of two
\* segments
FnRouteLists ==
    LET short == UNION {FnRoutesOfLength(n) : n \in 1..(MaxSegments - 1)}
    IN  {<<>>} \cup {<<r>> : r \in FnRoutes}
            \cup {<<r1, r2>> : r1 \in short, r2 \in FnRoutesOfLength(2)}

\* characters of an --ignore pattern
PatternChars == {"/", "a", "b", "-", "*", "."}

FnPatterns == UNION {[1..n -> PatternChars] : n \in 1..MaxPatternLen}

\* values of --ignore: one short pattern, patterns as long as the routes,
\* and lists of two with and without spaces
FnIgnoreOptions ==
    FnPatterns
    \cup {<<"/", "a", "/", "b">>, <<"/", "a", "/", "*">>, <<"*", "/", ".", "p">>,
          <<"a", "/", "b", ",", "/">>,
          <<"a", "/", "*", ",", " ", "a", "-", "b">>,
          <<"b", "/", "*", ",">>,
          <<" ", "/", " ">>}

\* names of directories: plain, group, dynamic, hidden, optional parameter
DirNames ==
    {<<"a">>, <<"(", "g", ")">>, <<"[", "p", "]">>, <<".", "h">>,
     <<"[", "[", "p", "]", "]">>}

\* a file that is no page
OtherFile == <<"x">>

\* listings of a directory of depth at most d with at most one subdirectory
RECURSIVE Chains(_)
Chains(d) ==
    IF d = 0 THEN {<<>>, <<FileEntry(PageMarker)>>, <<FileEntry(OtherFile)>>}
    ELSE {page \o dirs :
            page \in {<<>>, <<FileEntry(PageMarker)>>},
            dirs \in {<<>>} \cup {<<DirEntry(n, c)>> : n \in DirNames, c \in Chains(d - 1)}}

\* listings of the routes directory: a chain, or two subdirectories, one
\* with a subdirectory of its own
RootListings ==
    Chains(MaxDepth)
    \cup {page \o <<DirEntry(n[1], c1), DirEntry(n[2], c2)>> :
              page \in {<<>>, <<FileEntry(PageMarker)>>},
              n \in {m \in DirNames \X DirNames : m[1] # m[2]},
              c1 \in Chains(1), c2 \in Chains(0)}

\* the routes directory: missing, or with one of the listings
FnTrees ==
    {[exists |-> FALSE, entries |-> <<>>]}
    \cup {[exists |-> TRUE, entries |-> l] : l \in RootListings}

\* the listings readdirSync can return for the same directory tree: the
\* entries of every directory in any order
RECURSIVE Relistings(_)
Relistings(entries) ==
    LET n == Len(entries)
        RelistedEntry(e) == {[e EXCEPT !.entries = l] : l \in Relistings(e.entries)}
        perms == {p \in [1..n -> 1..n] : \A i, j \in 1..n : p[i] = p[j] => i = j}
    IN  IF n = 0 THEN {<<>>}
        ELSE UNION {{s \in [1..n -> UNION {RelistedEntry(entries[i]) : i \in 1..n}] :
                        \A i \in 1..n : s[i] \in RelistedEntry(entries[p[i]])} :
                    p \in perms}

\* characters of a route handed to the artifact naming: a slash, a letter of
\* each case, a digit, the dash, the underscore, and two outside the class
NameChars == {"/", "a", "Z", "7", "-", "_", ":", "."}

\* routes of up to MaxRouteLen characters, and the route "root"
NameRoutes ==
    UNION {[1..n -> NameChars] : n \in 0..MaxRouteLen} \cup {<<"r", "o", "o", "t">>}

\* base URLs: a host with and without a path, each with no, one and two
\* trailing slashes
FnBaseUrls ==
    {h \o t : h \in {<<"h">>, <<"h", "/", "x">>}, t \in {<<>>, <<"/">>, <<"/", "/">>}}

\* routes handed to joinUrl: slashes and other characters in every position
JoinRoutes == UNION {[1..n -> {"/", "a"}] : n \in 0..MaxRouteLen}

\* the longest lists of discovered routes
LongestRouteLists == {rs \in RouteLists : \A other \in RouteLists : Len(other) <= Len(rs)}

\* a file of the report directory that is no route's artifact
OtherReport == <<"z">>

\* report directories: absent, or holding any of the artifacts of the
\* discoverable routes and a file that belongs to none
FnReportDirs ==
    {[exists |-> FALSE, files |-> {}]}
    \cup {[exists |-> TRUE, files |-> fs] :
              fs \in SUBSET ({sanitizedPath(DiscoverableRoutes[i]) :
                                  i \in 1..Len(DiscoverableRoutes)} \cup {OtherReport})}

FnCalls ==
    {[NoCall EXCEPT !.fn = "applyParamValues", !.route = r, !.values = pv] :
        r \in FnRoutes, pv \in FnParamValues}
    \cup {[NoCall EXCEPT !.fn = "extractUniqueParams", !.routes = rs] :
              rs \in FnRouteLists}
    \cup {[NoCall EXCEPT !.fn = "filterIgnored", !.routes = rs, !.patterns = ig] :
              rs \in LongestRouteLists, ig \in FnIgnoreOptions}
    \cup {[NoCall EXCEPT !.fn = "processRoutesWithSubDir", !.routes = rs, !.dir = d] :
              rs \in RouteLists, d \in FnDirs \cup {<<>>}}
    \cup {[NoCall EXCEPT !.fn = "getRoutes", !.tree = t] : t \in FnTrees}
    \cup {[NoCall EXCEPT !.fn = "sanitizedPath", !.route = r] : r \in NameRoutes}
    \cup {[NoCall EXCEPT !.fn = "collectReports", !.routes = rs, !.reportDir = d] :
              rs \in RouteLists, d \in FnReportDirs}
    \cup {[NoCall EXCEPT !.fn = "joinUrl", !.baseUrl = b, !.route = r] :
              b \in FnBaseUrls, r \in JoinRoutes}
    \cup {[NoCall EXCEPT !.fn = "getReportDir"]}

InitFn ==
    /\ version = 2
    /\ runAll = FALSE
    /\ paramString = <<>>
    /\ discovered = <<>>
    /\ cpus = 1
    /\ authConfigPath = "none"
    /\ optionsLimit = 0
    /\ customSubDir = <<>>
    /\ ignore = <<>>
    /\ pc = "none"
    /\ NotStarted
    /\ call \in FnCalls
    /\ results = <<>>
    \* report directories left by earlier processes
    /\ reportDirs \in IF call.fn = "getReportDir"
                      THEN SUBSET {reportDirAt(t) : t \in 1..MaxTime} ELSE {{}}

\* applyParamValues(route, paramValues)
CallApplyParamValues ==
    /\ call.fn = "applyParamValues"
    /\ results = <<>>
    /\ results' = <<applyParamValues(call.route, call.values)>>
    /\ UNCHANGED <<inputVars, cliVars, batchVars, dirVars, call>>

\* applyParamValues(result, paramValues): the same dictionary applied to the
\* route returned by the first call
CallApplyParamValuesAgain ==
    /\ call.fn = "applyParamValues"
    /\ Len(results) = 1
    /\ results' = Append(results, applyParamValues(results[1], call.values))
    /\ UNCHANGED <<inputVars, cliVars, batchVars, dirVars, call>>

\* extractUniqueParams(routes)
CallExtractUniqueParams ==
    /\ call.fn = "extractUniqueParams"
    /\ results = <<>>
    /\ results' = <<extractUniqueParams(call.routes)>>
    /\ UNCHANGED <<inputVars, cliVars, batchVars, dirVars, call>>

\* the ignore filter of runLighthouse applied to routes for a value of --ignore
CallFilterIgnored ==
    /\ call.fn = "filterIgnored"
    /\ results = <<>>
    /\ results' = <<filterIgnored(call.routes, ignorePatternsOf(call.patterns))>>
    /\ UNCHANGED <<inputVars, cliVars, batchVars, dirVars, call>>

\* processRoutesWithSubDir(routes, customSubDir)
CallProcessRoutesWithSubDir ==
    /\ call.fn = "processRoutesWithSubDir"
    /\ results = <<>>
    /\ results' = <<processRoutesWithSubDir(call.routes, call.dir)>>
    /\ UNCHANGED <<inputVars, cliVars, batchVars, dirVars, call>>

\* getRoutes(dir) on the routes directory as listed
CallGetRoutes ==
    /\ call.fn = "getRoutes"
    /\ results = <<>>
    /\ results' = <<getRoutes(call.tree)>>
    /\ UNCHANGED <<inputVars, cliVars, batchVars, dirVars, call>>

\* getRoutes(dir) once more on the same directory tree: nothing in getRoutes
\* orders the entries, the routes come in the order readdirSync lists them
CallGetRoutesAgain ==
    /\ call.fn = "getRoutes"
    /\ Len(results) = 1
    /\ \E listing \in Relistings(call.tree.entries) :
          results' = Append(results, getRoutes([call.tree EXCEPT !.entries = listing]))
    /\ UNCHANGED <<inputVars, cliVars, batchVars, dirVars, call>>

\* the artifact name of a route as runLighthouseAudit computes it for the
\* output path and as collectReports computes it for the lookup
CallSanitizedPath ==
    /\ call.fn = "sanitizedPath"
    /\ results = <<>>
    /\ results' = <<[invoker |-> sanitizedPath(call.route),
                     collector |-> collectorSanitizedPath(call.route)]>>
    /\ UNCHANGED <<inputVars, cliVars, batchVars, dirVars, call>>

\* joinUrl(baseUrl, route)
CallJoinUrl ==
    /\ call.fn = "joinUrl"
    /\ results = <<>>
    /\ results' = <<joinUrl(call.baseUrl, call.route)>>
    /\ UNCHANGED <<inputVars, cliVars, batchVars, dirVars, call>>

\* collectReports(processedRoutes, reportDir, baseUrl) on the finished work
\* list of the routes
CallCollectReports ==
    /\ call.fn = "collectReports"
    /\ results = <<>>
    /\ LET prs == newProcessedRoutes(call.routes, EmptyObject)
           done == [i \in 1..Len(prs) |-> [prs[i] EXCEPT !.completed = TRUE]]
       IN  results' = <<collectReports(done, call.reportDir)>>
    /\ UNCHANGED <<inputVars, cliVars, batchVars, dirVars, call>>

\* one call of getReportDir, by an audit or by the collector
CallGetReportDir ==
    /\ call.fn = "getReportDir"
    /\ Len(results) < MaxCalls
    /\ LET r == getReportDir(currentReportDir, now, reportDirs)
       IN  /\ currentReportDir' = r.currentReportDir
           /\ reportDirs' = r.dirs
           /\ mkdirLog' = mkdirLog \o r.mkdir
           /\ results' = Append(results, [at |-> now, dir |-> r.returned])
    /\ UNCHANGED <<inputVars, cliVars, batchVars, call, now>>

\* time passes between two calls of getReportDir
Tick ==
    /\ call.fn = "getReportDir"
    /\ now < MaxTime
    /\ now' = now + 1
    /\ UNCHANGED <<inputVars, cliVars, batchVars, call, results, currentReportDir,
                   reportDirs, mkdirLog>>

NextFn ==
    \/ CallApplyParamValues
    \/ CallApplyParamValuesAgain
    \/ CallExtractUniqueParams
    \/ CallFilterIgnored
    \/ CallProcessRoutesWithSubDir
    \/ CallGetRoutes
    \/ CallGetRoutesAgain
    \/ CallSanitizedPath
    \/ CallJoinUrl
    \/ CallCollectReports
    \/ CallGetReportDir
    \/ Tick

SpecFn == InitFn /\ [][NextFn]_vars

\* ------------------------------------------------------------ properties
Items == 1..Len(processedRoutes)
Promises == 1..Len(auditLog)
InProgressItems == {i \in Items : processedRoutes[i].inProgress}
PendingItems == {i \in Items : ~processedRoutes[i].completed /\ ~processedRoutes[i].inProgress}
CompletedItems == {i \in Items : processedRoutes[i].completed}
UnsettledAudits == {p \in Promises : auditLog[p].result = "pending"}
ClaimsOf(i) == {p \in Promises : auditLog[p].item = i}
InBatch == version = 1 /\ runAll /\ pc \in {"race", "schedDone", "batchReturned"}
BatchReturned == version = 1 /\ runAll /\ (pc = "batchReturned" \/ outcome = "completed")

\* C1: in processBatchAudits the number of work items in progress (audit
\* started and not yet settled) never exceeds the concurrency limit
C1_BoundedConcurrency ==
    InBatch =>
        /\ Cardinality(InProgressItems) <= CONCURRENCY_LIMIT
        /\ Cardinality(UnsettledAudits) <= CONCURRENCY_LIMIT

\* the pool is full again after a completion, with two workers
C1_Witness ==
    /\ pc = "race"
    /\ CONCURRENCY_LIMIT = 2
    /\ Cardinality(InProgressItems) = 2
    /\ CompletedItems # {}

\* C2: failing audits never make processBatchAudits throw: the failure is
\* caught at its item, the item is marked completed, and when the batch has
\* returned its result list every route was audited and is completed
C2_FailuresContained ==
    /\ outcome # "batchThrew"
    /\ \A p \in 1..Len(stage) :
          /\ stage[p] \notin {"procRejected", "wrapRejected"}
          /\ stage[p] \in {"procDone", "removed"} =>
                /\ processedRoutes[ItemOf(p)].completed
                /\ ~processedRoutes[ItemOf(p)].inProgress
    /\ BatchReturned =>
          /\ Len(processedRoutes) = Len(routes)
          /\ \A i \in Items : processedRoutes[i].completed /\ ClaimsOf(i) # {}
    /\ (runAll /\ outcome = "completed") =>
          \A i \in 1..Len(routes) : ClaimsOf(i) # {}

\* a batch returned although an audit failed before the last route was started
C2_Witness ==
    /\ pc = "batchReturned"
    /\ Len(processedRoutes) >= 3
    /\ \E p \in Promises : auditLog[p].result = "fail" /\ p < Len(auditLog)
    /\ \E p \in Promises : auditLog[p].result = "ok"

\* C3: the list returned by processBatchAudits has an entry for a route if and
\* only if that route's own audit succeeded, and then exactly one
C3_ResultsIffOwnSuccess ==
    pc = "batchReturned" =>
        \A i \in Items :
            LET entries == {k \in 1..Len(reports) :
                               reports[k].route = processedRoutes[i].processedRoute}
                succeeded == \E p \in ClaimsOf(i) : auditLog[p].result = "ok"
            IN  /\ succeeded => Cardinality(entries) = 1
                /\ ~succeeded => entries = {}

\* C4: every work item is claimed exactly once and by one worker: never passed
\* to the audit twice, never held by two in-flight workers, never skipped
C4_ClaimedExactlyOnce ==
    (version = 1 /\ runAll) =>
        /\ \A i \in Items : Cardinality(ClaimsOf(i)) <= 1
        /\ \A i \in Items :
              (processedRoutes[i].inProgress \/ processedRoutes[i].completed)
                  <=> Cardinality(ClaimsOf(i)) = 1
        /\ \A p, q \in running : p # q => ItemOf(p) # ItemOf(q)
        /\ pc \in {"schedDone", "batchReturned"} =>
              \A i \in Items : Cardinality(ClaimsOf(i)) = 1

\* the scheduler finished three items with two workers
C4_Witness ==
    /\ pc = "schedDone"
    /\ CONCURRENCY_LIMIT = 2
    /\ Len(processedRoutes) >= 3
    /\ \A i \in Items : Cardinality(ClaimsOf(i)) = 1

\* C5: when every audit settles, executeWithDynamicScheduling terminates, and
\* at termination every item has completed = true and inProgress = false
C5_SchedulerTerminates ==
    /\ [](pc = "schedDone" =>
             \A i \in Items : processedRoutes[i].completed /\ ~processedRoutes[i].inProgress)
    /\ (pc = "race") ~> (pc = "schedDone")

\* the scheduler terminated after a refill and a failed audit
C5_Witness ==
    /\ pc = "schedDone"
    /\ Len(processedRoutes) > CONCURRENCY_LIMIT
    /\ \E p \in Promises : auditLog[p].result = "fail"

\* a '/'-delimited segment of a route to audit names a parameter that has
\* no preset value
SomeParamWithoutPreset ==
    \E i \in 1..Len(routes) :
        \E part \in Range(Split(routes[i], "/")) :
            StartsWithColon(part) /\ Tail(part) \notin DOMAIN presetParamValues

C7_NoPlaceholderAudited ==
    runAll => \A p \in Promises : ~HasParamSegment(auditLog[p].route)

\* C8: with preset parameters supplied and a required value missing, the
\* process terminates with exit code 1, in --all mode and in interactive mode
C8_MissingParamsExitOne ==
    (exited /\ outcome = "missingParams") => exitCode = 1

\* C9: zero discovered routes are a fatal error: no audit, no report index,
\* exit code 1
C9_NoRoutesExitOne ==
    (pc # "start" /\ Len(discovered) = 0) =>
        /\ exited
        /\ auditLog = <<>>
        /\ ~indexGenerated
        /\ exitCode = 1

\* C10: in the single-route path a failed audit is reported, no report index
\* is generated and the process terminates with exit code 1
C10_SingleAuditFailureExitOne ==
    (~runAll /\ \E p \in Promises : auditLog[p].result = "fail") =>
        /\ exited
        /\ outcome = "auditFailed"
        /\ ~indexGenerated
        /\ exitCode = 1

\* C14: the concurrency limit is max(1, CPUs - 1) unless the caller supplies
\* one, and then the pool size is the supplied value
C14_LimitOverridable ==
    InBatch =>
        /\ CONCURRENCY_LIMIT = IF optionsLimit = 0 THEN Max(1, cpus - 1) ELSE optionsLimit
        /\ Cardinality(running) <= IF optionsLimit = 0 THEN Max(1, cpus - 1)
                                   ELSE optionsLimit

\* C11: every audit of a batch that settles, whether it succeeded or failed,
\* emits one progress notification, so that a batch of n routes has emitted
\* n notifications when it ends and the last one reports n of n
C11_NotificationPerSettledAudit ==
    (runAll /\ (pc = "batchReturned" \/ outcome = "completed")) =>
        /\ Len(progressLog) = Len(routes)
        /\ Len(routes) > 0 => progressLog[Len(progressLog)] = Len(routes)

\* C12: the completed counts of the successive progress notifications of a
\* batch are strictly increasing and never exceed the number of routes
C12_ProgressMonotonic ==
    \A k \in 1..Len(progressLog) :
        /\ progressLog[k] <= Len(routes)
        /\ k > 1 => progressLog[k - 1] < progressLog[k]

\* two notifications of processBatchAudits, the second audit started having
\* settled before the first one
C12_Witness ==
    /\ InBatch
    /\ Len(progressLog) >= 2
    /\ \E p, q \in Promises : p < q /\ stage[q] = "removed" /\ stage[p] = "auditing"

\* the scheduler waits in Promise.race and no continuation of a settled
\* audit is left to run
SchedulerSuspended ==
    /\ pc = "race"
    /\ raceResult = "pending"
    /\ \A p \in running : stage[p] = "auditing" /\ auditLog[p].result = "pending"

\* C13: while the scheduler is suspended waiting for a completion, the
\* number of audits in flight is min(CONCURRENCY_LIMIT, items not completed)
C13_PoolSaturated ==
    (InBatch /\ SchedulerSuspended) =>
        LET remaining == Cardinality(Items \ CompletedItems)
        IN  /\ Cardinality(running) =
                  IF CONCURRENCY_LIMIT < remaining THEN CONCURRENCY_LIMIT ELSE remaining
            /\ Cardinality(running) = Cardinality(UnsettledAudits)
            /\ PendingItems # {} => Cardinality(running) = CONCURRENCY_LIMIT

\* a suspended scheduler after a refill that brought the pool back to the limit
C13_Witness ==
    /\ InBatch /\ SchedulerSuspended
    /\ CompletedItems # {}
    /\ Cardinality(running) = CONCURRENCY_LIMIT
    /\ CONCURRENCY_LIMIT > 1

\* the segments of the route of a call of applyParamValues, and of its result
CallParts == Split(call.route, "/")
ResultParts == Split(results[1], "/")
ParamName(part) == Tail(part)

\* C15: applyParamValues replaces every segment ':name' by values[name] when
\* name is a key of values, leaves it when it is not, passes every other
\* segment through, and keeps the number and the order of the segments
C15_ApplyReplacesKeyedSegments ==
    (call.fn = "applyParamValues" /\ Len(results) >= 1) =>
        /\ Len(ResultParts) = Len(CallParts)
        /\ \A i \in 1..Len(CallParts) :
              ResultParts[i] =
                  IF StartsWithColon(CallParts[i])
                     /\ ParamName(CallParts[i]) \in DOMAIN call.values
                  THEN call.values[ParamName(CallParts[i])]
                  ELSE CallParts[i]

\* the dictionary of the call has a value for every ':name' segment of its route
CompleteMapping ==
    \A i \in 1..Len(CallParts) :
        StartsWithColon(CallParts[i]) => ParamName(CallParts[i]) \in DOMAIN call.values

\* C16: with a value for every ':name' segment, applyParamValues returns a
\* route without ':'-prefixed segment, and applying the same dictionary to
\* that route returns it unchanged
C16_CompleteMappingResolves ==
    (call.fn = "applyParamValues" /\ CompleteMapping) =>
        /\ Len(results) >= 1 => ~HasParamSegment(results[1])
        /\ Len(results) >= 2 => results[2] = results[1]

\* all segments of the routes of a call of extractUniqueParams, in order
CallSegments ==
    LET F[i \in 0..Len(call.routes)] ==
            IF i = 0 THEN <<>> ELSE F[i - 1] \o Split(call.routes[i], "/")
    IN  F[Len(call.routes)]

\* the position of the first segment ':' followed by name
FirstAppearance(name) ==
    CHOOSE k \in 1..Len(CallSegments) :
        /\ CallSegments[k] = <<":">> \o name
        /\ \A j \in 1..(k - 1) : CallSegments[j] # <<":">> \o name

\* C17: extractUniqueParams returns exactly the names n such that some
\* segment of some route is ':' followed by n, each once, in the order of
\* their first appearance
C17_UniqueParamsInOrder ==
    (call.fn = "extractUniqueParams" /\ Len(results) = 1) =>
        LET out == results[1]
        IN  /\ Range(out) = {ParamName(CallSegments[k]) :
                                k \in {j \in 1..Len(CallSegments) :
                                          StartsWithColon(CallSegments[j])}}
            /\ \A i, j \in 1..Len(out) : i < j =>
                  /\ out[i] # out[j]
                  /\ FirstAppearance(out[i]) < FirstAppearance(out[j])

\* a name found in both routes of the call, after another name
C17_Witness ==
    /\ call.fn = "extractUniqueParams"
    /\ Len(results) = 1
    /\ Len(results[1]) = 2
    /\ Len(call.routes) = 2
    /\ \E n \in Range(results[1]) :
          /\ n # results[1][1]
          /\ \A r \in 1..2 : <<":">> \o n \in Range(Split(call.routes[r], "/"))

\* the whole route equals the pattern, a '*' standing for zero or more
\* arbitrary characters and every other character for itself
RECURSIVE GlobMatches(_, _)
GlobMatches(pattern, route) ==
    IF Len(pattern) = 0 THEN Len(route) = 0
    ELSE IF pattern[1] = "*"
    THEN \/ GlobMatches(Tail(pattern), route)
         \/ Len(route) > 0 /\ GlobMatches(pattern, Tail(route))
    ELSE Len(route) > 0 /\ pattern[1] = route[1]
         /\ GlobMatches(Tail(pattern), Tail(route))

\* C18: after the ignore filtering a route survives if and only if it
\* matches no pattern, a pattern matching when the whole route equals it with
\* '*' for zero or more arbitrary characters and every other character for
\* itself; the surviving routes keep their order
C18_IgnoreFilterIsGlob ==
    (call.fn = "filterIgnored" /\ Len(results) = 1) =>
        LET P == ignorePatternsOf(call.patterns)
        IN  results[1] = SelectSeq(call.routes, LAMBDA route :
                            ~\E k \in 1..Len(P) : GlobMatches(P[k], route))

\* s without the '/' characters at its end, and without those in front
RECURSIVE StripTrailingSlashes(_)
StripTrailingSlashes(s) ==
    IF Len(s) > 0 /\ s[Len(s)] = "/" THEN StripTrailingSlashes(SubSeq(s, 1, Len(s) - 1))
    ELSE s

RECURSIVE StripLeadingSlashes(_)
StripLeadingSlashes(s) ==
    IF Len(s) > 0 /\ s[1] = "/" THEN StripLeadingSlashes(Tail(s)) ELSE s

\* customSubDir followed by the route, one slash between them
WithSingleSlash(dir, route) ==
    StripTrailingSlashes(dir) \o <<"/">> \o StripLeadingSlashes(route)

\* the result of a call with a custom directory has the length of the
\* routes, '/' mapped to the directory itself, the others to the directory
\* followed by the route
SubDirPrefixed ==
    LET out == results[1]
    IN  /\ Len(out) = Len(call.routes)
        /\ \A i \in 1..Len(call.routes) :
              out[i] = IF call.routes[i] = <<"/">> THEN call.dir
                       ELSE WithSingleSlash(call.dir, call.routes[i])

PlainDir(dir) ==
    LET parts == Split(dir, "/")
    IN  \A i \in 1..Len(parts) :
            /\ parts[i] \notin {Dot, DotDot}
            /\ parts[i] = <<>> => i \in {1, Len(parts)}

ExecutionRouteOf(displayed) == processRoutesWithSubDir(<<displayed>>, customSubDir)[1]

\* C20: the display list and the execution list have the same length, the
\* i-th execution route is the one derived from the i-th displayed route, and
\* the number typed for the i-th displayed route selects that execution
\* route, with and without --dir and --ignore
C20_ListsParallel ==
    /\ Len(displayRoutes) = Len(routes)
    /\ \A i \in 1..Len(displayRoutes) : routes[i] = ExecutionRouteOf(displayRoutes[i])
    /\ routeIndex >= 0 =>
          /\ routeIndex + 1 \in 1..Len(displayRoutes)
          /\ LET selected == ExecutionRouteOf(displayRoutes[routeIndex + 1])
             IN  routeToAudit \in {selected, applyParamValues(selected, paramValues)}

\* the second displayed route was selected and audited, with --dir, and
\* with --ignore having dropped a route
C20_Witness ==
    /\ routeIndex = 1
    /\ customSubDir # <<>>
    /\ ignore # <<>>
    /\ Len(displayRoutes) < Len(discovered)
    /\ displayRoutes[2] # routes[2]
    /\ auditLog # <<>>

\* a directory name of the form (name)
IsGroupName(name) == StartsWith(name, "(") /\ EndsWith(name, ")")

\* the listing with the children of every group directory put in the place
\* of the group directory
RECURSIVE FlattenGroups(_)
FlattenGroups(entries) ==
    IF Len(entries) = 0 THEN <<>>
    ELSE LET entry == entries[1]
         IN  (IF entry.isDirectory /\ IsGroupName(entry.name)
              THEN FlattenGroups(entry.entries)
              ELSE IF entry.isDirectory
              THEN <<[entry EXCEPT !.entries = FlattenGroups(entry.entries)]>>
              ELSE <<entry>>)
                 \o FlattenGroups(Tail(entries))

\* C21: a group directory adds no path segment: the routes are those of the
\* tree in which the children of every group directory are children of its
\* parent, and a page marker with an empty base path yields '/'
C21_GroupAddsNoSegment ==
    (call.fn = "getRoutes" /\ call.tree.exists /\ Len(results) >= 1) =>
        LET flat == FlattenGroups(call.tree.entries)
        IN  /\ results[1].routes = getRoutesOfEntries(flat, <<>>)
            /\ FileEntry(PageMarker) \in Range(flat) =>
                  <<"/">> \in Range(results[1].routes)

\* a page directly under a group of the routes directory, and a page under
\* a group inside the directory a
C21_Witness ==
    /\ call.fn = "getRoutes"
    /\ Len(results) >= 1
    /\ \E i, j \in 1..Len(call.tree.entries) :
          /\ call.tree.entries[i] = DirEntry(<<"(", "g", ")">>, <<FileEntry(PageMarker)>>)
          /\ call.tree.entries[j] =
                DirEntry(<<"a">>, <<DirEntry(<<"(", "g", ")">>, <<FileEntry(PageMarker)>>)>>)
    /\ Range(results[1].routes) = {<<"/">>, <<"a">>}

\* the routes of a listing as the directory convention describes them: a
\* route is '/' followed by the segments joined by '/', a [name] directory
\* giving ':name', a group nothing, a hidden directory no route
RECURSIVE ConventionRoutes(_, _)
ConventionRoutes(entries, basePath) ==
    IF Len(entries) = 0 THEN <<>>
    ELSE LET entry == entries[1]
             name == entry.name
             found ==
                 IF ~entry.isDirectory
                 THEN (IF name = PageMarker
                       THEN <<IF Len(basePath) = 0 THEN <<"/">> ELSE basePath>>
                       ELSE <<>>)
                 ELSE IF StartsWith(name, ".") THEN <<>>
                 ELSE IF IsGroupName(name) THEN ConventionRoutes(entry.entries, basePath)
                 ELSE IF StartsWith(name, "[") /\ EndsWith(name, "]")
                 THEN ConventionRoutes(entry.entries,
                                       basePath \o <<"/", ":">> \o SliceInner(name))
                 ELSE ConventionRoutes(entry.entries, basePath \o <<"/">> \o name)
         IN  found \o ConventionRoutes(Tail(entries), basePath)

\* C22: a [name] directory contributes the segment ':name', any other
\* directory that is neither hidden nor a group its name, so that a page in
\* users/[id] is the route /users/:id; hidden directories contribute nothing
C22_SegmentsOfDirectories ==
    (call.fn = "getRoutes" /\ call.tree.exists /\ Len(results) >= 1) =>
        results[1].routes = ConventionRoutes(call.tree.entries, <<>>)

\* C23: no emitted route contains '(' or ')' or '[' or ']'
C23_NoDelimiterInRoute ==
    (call.fn = "getRoutes" /\ Len(results) >= 1) =>
        \A i \in 1..Len(results[1].routes) :
            Range(results[1].routes[i]) \cap {"(", ")", "[", "]"} = {}

\* C24: getRoutes on a routes directory that does not exist returns the
\* empty sequence and does not throw
C24_MissingRootIsEmpty ==
    (call.fn = "getRoutes" /\ ~call.tree.exists /\ Len(results) >= 1) =>
        /\ ~results[1].threw
        /\ results[1].routes = <<>>

\* getRoutes returned for a missing routes directory
C24_Witness ==
    /\ call.fn = "getRoutes"
    /\ ~call.tree.exists
    /\ Len(results) >= 1
    /\ results[1] = [threw |-> FALSE, routes |-> <<>>]

\* C25: two runs of getRoutes on the same directory tree return the same
\* sequence of routes
C25_SameTreeSameRoutes ==
    (call.fn = "getRoutes" /\ Len(results) = 2) => results[2] = results[1]

\* the characters of the class A-Z, a-z, 0-9, '-', '_'
NameClass ==
    {"0", "1", "2", "3", "4", "5", "6", "7", "8", "9", "-", "_"}
        \cup {c \in LowerCase \cup UpperCase : TRUE}

\* 'root' for the root route; otherwise the route without its leading slash,
\* '-' for every other slash and '_' for every character outside the class
ArtifactNameOf(route) ==
    IF route = <<"/">> THEN <<"r", "o", "o", "t">>
    ELSE LET rest == IF Len(route) > 0 /\ route[1] = "/"
                     THEN SubSeq(route, 2, Len(route)) ELSE route
         IN  [i \in 1..Len(rest) |->
                 CASE rest[i] = "/" -> "-"
                   [] rest[i] # "/" /\ rest[i] \in NameClass -> rest[i]
                   [] OTHER -> "_"]

\* C26: the audit invoker and the result collector compute the same
\* artifact name: 'root' for '/', otherwise leading slash stripped, '/'
\* replaced by '-', characters outside [A-Za-z0-9-_] replaced by '_'
C26_ArtifactNameAgreed ==
    (call.fn = "sanitizedPath" /\ Len(results) = 1) =>
        /\ results[1].invoker = results[1].collector
        /\ results[1].invoker = ArtifactNameOf(call.route)

\* the names of the root route and of a route with a slash inside and a
\* character outside the class
C26_Witness ==
    /\ call.fn = "sanitizedPath"
    /\ Len(results) = 1
    /\ \/ call.route = <<"/">> /\ results[1].collector = <<"r", "o", "o", "t">>
       \/ call.route = <<"a", "/", ":">> /\ results[1].invoker = <<"a", "-", "_">>

\* at most one slash at the end of the base URL and at the start of the route
AtMostOneJoiningSlash(baseUrl, route) ==
    /\ ~(Len(baseUrl) > 1 /\ baseUrl[Len(baseUrl)] = "/" /\ baseUrl[Len(baseUrl) - 1] = "/")
    /\ ~(Len(route) > 1 /\ route[1] = "/" /\ route[2] = "/")

C28_MissingFileProceeds ==
    (version = 2 /\ authConfigPath = "missing" /\ exited) =>
        /\ outcome # "authFailed"
        /\ (outcome = "completed" /\ Len(routes) > 0) => auditLog # <<>>

\* the answer is a decimal number: digits only, at least one
IsNumeric(answer) == Len(answer) > 0 /\ \A i \in 1..Len(answer) : IsDigit(answer[i])

\* the number a numeric answer denotes
RECURSIVE NumberOf(_)
NumberOf(answer) ==
    IF answer = <<>> THEN 0
    ELSE NumberOf(SubSeq(answer, 1, Len(answer) - 1)) * 10 + DigitValue(answer[Len(answer)])

\* the answer to the selection question is 'q', or is not a number, or is a
\* number outside 1..(number of listed routes)
NotASelection(answer) ==
    \/ answer \in {<<"q">>, <<"Q">>}
    \/ ~IsNumeric(answer)
    \/ NumberOf(answer) \notin 1..Len(displayRoutes)

\* C29: after 'q' or a selection that is non-numeric or outside
\* 1..(number of listed routes) the session has ended with exit code 0, no
\* parameter prompt was issued and no audit was invoked
C29_InvalidSelectionEndsCleanly ==
    (selections # <<>> /\ NotASelection(selections[1])) =>
        /\ exited
        /\ exitCode = 0
        /\ promptLog = <<>>
        /\ auditLog = <<>>

\* the routes whose parameters the run needs: all of them with --all, the
\* selected one in interactive mode
RoutesToResolve ==
    IF runAll THEN routes
    ELSE IF routeIndex >= 0 THEN <<routes[routeIndex + 1]>> ELSE <<>>

\* the segments of a list of routes, in order
RECURSIVE SegmentsOf(_)
SegmentsOf(rs) ==
    IF rs = <<>> THEN <<>>
    ELSE SegmentsOf(SubSeq(rs, 1, Len(rs) - 1)) \o Split(rs[Len(rs)], "/")

\* the parameter names among the segments, each once, in the order of their
\* first appearance
RECURSIVE NamesInOrder(_)
NamesInOrder(segs) ==
    IF segs = <<>> THEN <<>>
    ELSE LET before == NamesInOrder(SubSeq(segs, 1, Len(segs) - 1))
             last == segs[Len(segs)]
         IN  IF /\ Len(last) > 0
                /\ last[1] = ":"
                /\ \A k \in 1..Len(before) : before[k] # Tail(last)
             THEN Append(before, Tail(last))
             ELSE before

\* the number of answers collected at parameter prompts
Answered == Cardinality(DOMAIN userParamValues)

RECURSIVE RoutesWithArtifact(_, _)
RoutesWithArtifact(rs, reportDir) ==
    IF rs = <<>> THEN <<>>
    ELSE LET r == rs[Len(rs)]
             front == RoutesWithArtifact(SubSeq(rs, 1, Len(rs) - 1), reportDir)
         IN  IF reportDir.exists /\ ArtifactNameOf(r) \in reportDir.files
             THEN Append(front, r) ELSE front

\* C31: collectReports returns without throwing; a route whose artifact is
\* absent (or every route, when the directory is absent) yields no entry,
\* and every other route is still collected
C31_MissingArtifactTolerated ==
    (call.fn = "collectReports" /\ Len(results) = 1) =>
        [k \in 1..Len(results[1]) |-> results[1][k].route]
            = RoutesWithArtifact(call.routes, call.reportDir)

\* the artifact of the first of three routes is absent and the other two
\* routes are collected
C31_Witness ==
    /\ call.fn = "collectReports"
    /\ Len(call.routes) = 3
    /\ call.reportDir.exists
    /\ ArtifactNameOf(call.routes[1]) \notin call.reportDir.files
    /\ Len(results) = 1
    /\ Len(results[1]) = 2

\* the status of a work item
StatusOf(item) ==
    IF item.completed /\ item.inProgress THEN "Both"
    ELSE IF item.completed THEN "Done"
    ELSE IF item.inProgress THEN "InProgress"
    ELSE "Pending"

\* a status stays, or moves from Pending to InProgress, or from InProgress
\* to Done
StatusStep(before, after) ==
    \/ after = before
    \/ before = "Pending" /\ after = "InProgress"
    \/ before = "InProgress" /\ after = "Done"

\* C32: whenever the code is suspended no work item is both completed and
\* in progress, and from one suspension to the next the status of an item
\* stays or moves Pending -> InProgress or InProgress -> Done
C32_StatusOnlyAdvances ==
    /\ [](\A i \in Items : StatusOf(processedRoutes[i]) # "Both")
    /\ [][\A i \in Items :
              /\ i \in 1..Len(processedRoutes')
              /\ StatusStep(StatusOf(processedRoutes[i]), StatusOf(processedRoutes'[i]))]_vars

\* of three work items one is done, one in progress and one pending
C32_Witness ==
    /\ Len(processedRoutes) = 3
    /\ {StatusOf(processedRoutes[i]) : i \in Items} = {"Done", "InProgress", "Pending"}

\* C33: from its creation to result collection the work list has one item
\* per input route, in input order, each with the route it was created from
\* and the processed route it was created with
C33_WorkListOnlyFlagsChange ==
    (InBatch \/ processedRoutes # <<>>) =>
        /\ Len(processedRoutes) = Len(routes)
        /\ \A i \in 1..Len(routes) :
              /\ processedRoutes[i].originalRoute = routes[i]
              /\ processedRoutes[i].processedRoute = applyParamValues(routes[i], paramValues)

\* the results of three items were collected, one of them with parameter
\* values applied
C33_Witness ==
    /\ pc = "batchReturned"
    /\ Len(processedRoutes) = 3
    /\ \E i \in Items : processedRoutes[i].processedRoute # processedRoutes[i].originalRoute
    /\ \A i \in Items : processedRoutes[i].completed

\* C34: distinct processed routes of a batch have distinct artifact names,
\* and every collected entry of a route stems from a successful audit of
\* that route
C34_ArtifactNamesDistinct ==
    /\ \A i, j \in Items :
          processedRoutes[i].processedRoute # processedRoutes[j].processedRoute =>
              ArtifactNameOf(processedRoutes[i].processedRoute)
                  # ArtifactNameOf(processedRoutes[j].processedRoute)
    /\ pc = "batchReturned" =>
          \A k \in 1..Len(reports) :
              \E p \in Promises : /\ auditLog[p].route = reports[k].route
                                  /\ auditLog[p].result = "ok"

\* C35: the items claimed so far are the first ones of the list, and they
\* were handed to the audit in list order
C35_ClaimedInInputOrder ==
    /\ \A i \in Items :
          ClaimsOf(i) # {} => \A j \in 1..(i - 1) : ClaimsOf(j) # {}
    /\ (version = 1 /\ runAll) =>
          \A p, q \in Promises : p < q => auditLog[p].item < auditLog[q].item

\* the second item completed before the first, and the third was claimed
\* while the first is still in progress
C35_Witness ==
    /\ Len(processedRoutes) = 3
    /\ StatusOf(processedRoutes[1]) = "InProgress"
    /\ StatusOf(processedRoutes[2]) = "Done"
    /\ StatusOf(processedRoutes[3]) = "InProgress"

\* the place of a processed route in the work list
PlaceOf(route) == CHOOSE i \in Items : processedRoutes[i].processedRoute = route

\* C36: the routes of the list returned by processBatchAudits are routes of
\* the work list, in the order of the work list
C36_ResultsInInputOrder ==
    pc = "batchReturned" =>
        /\ \A k \in 1..Len(reports) :
              \E i \in Items : processedRoutes[i].processedRoute = reports[k].route
        /\ \A k, l \in 1..Len(reports) :
              k < l => PlaceOf(reports[k].route) < PlaceOf(reports[l].route)

\* three audits ran on two workers and all three are in the returned list
C36_Witness ==
    /\ pc = "batchReturned"
    /\ CONCURRENCY_LIMIT = 2
    /\ Len(processedRoutes) = 3
    /\ Len(reports) = 3

\* C37: when runWithBrowserContext has returned or thrown, and the session
\* has ended, the browser it launched is closed
C37_BrowserClosedOnEveryPath ==
    (version = 2 /\ exited) => ~browserOpen

\* C38: every call of getReportDir within one process returns the same
\* directory, that directory exists, and the process created at most one
\* directory
C38_OneReportDirPerProcess ==
    call.fn = "getReportDir" =>
        /\ \A k, l \in 1..Len(results) : results[k].dir = results[l].dir
        /\ \A k \in 1..Len(results) : results[k].dir \in reportDirs
        /\ Len(mkdirLog) <= 1

\* three calls, the last one two milliseconds after the first, returned the
\* directory that the first one created
C38_Witness ==
    /\ call.fn = "getReportDir"
    /\ Len(results) = 3
    /\ results[3].at >= results[1].at + 2
    /\ mkdirLog = <<results[3].dir>>

====
